---- MODULE Spec2Model ----
(***************************************************************************)
(* A model of rover.h: the Rover (land, execute, danger_exists), the       *)
(* Operation hierarchy (MoveForward, MoveBackward, RotateLeft,             *)
(* RotateRight, Compose) and the Sensor interface.                         *)
(*                                                                         *)
(* The specifications share the operators that model the code:             *)
(*   Spec      the life of one rover: any sequence of land and execute     *)
(*             calls after construction, and of what the rover's user can  *)
(*             do to its State through the public setState and getState;   *)
(*   SpecCanonical  the same life, every land passing one of the four      *)
(*             directions of Direction and every execute passing at most   *)
(*             one token, with the last call kept;                         *)
(*   SpecSnapshot  the same life, during which a caller obtains the State  *)
(*             from getState() and holds it;                               *)
(*   SpecBuild  a RoverBuilder is programmed, a rover is built from it,    *)
(*             lands and executes while the builder is programmed further; *)
(*   SpecCall  a rover is built, possibly landed and possibly left stopped *)
(*             by an execute that met an unbound token; then one call      *)
(*             (land, execute, danger_exists, an operation's execute or    *)
(*             the stream insertion <<) is made on it and observed: its    *)
(*             arguments, the rover before                                 *)
(*             it, its sensor queries and the primitive operations it ran  *)
(*             are kept for inspection.                                    *)
(*                                                                         *)
(* Coordinates are int32_t in the code; every value of the model stays     *)
(* within a few units of the origin, far from the overflow of x + dx.      *)
(***************************************************************************)
EXTENDS Integers, Sequences, FiniteSets, TLC

VARIABLES
    sensors,      \* Rover::sensors: the sequence of sensors
    state,        \* Rover::state: the State the rover currently points to
    operations,   \* Rover::operations: token -> Operation
    landed,       \* Rover::landed
    land_called,  \* history: land has been called on this rover
    call,         \* the last call made: "none", "land", "execute", ...
    thrown,       \* how the last call ended: "none", "RoverNotLanded", "SIGSEGV"
    observed,     \* SpecCall: the last call is the observed one
    args,         \* SpecCall: the arguments of the call
    pre,          \* SpecCall: the rover's state and landed flag before the call
    returned,     \* SpecCall: what danger_exists returned, what << wrote
    queried,      \* SpecCall: the is_safe calls of the call, in order
    ran,          \* SpecCall: the primitive operations run by the call, in order
    builder,      \* a RoverBuilder object: builder_operations, builder_sensors
    temporary,    \* the RoverBuilder its last call returned, <<>> before any
    accumulated,  \* history: the registrations and sensors asked for before build()
    built_on,     \* which RoverBuilder build() was called on, "none" before it
    builder_calls, \* the program_command and add_sensor calls made so far
    snapshot      \* the State a caller obtained from getState() and holds

vars == <<sensors, state, operations, landed, land_called, call, thrown,
          observed, args, pre, returned, queried, ran,
          builder, temporary, accumulated, built_on, builder_calls, snapshot>>

rover_vars == <<sensors, state, operations, landed, snapshot>>
observed_vars == <<observed, args, pre, returned, queried, ran>>
builder_vars == <<builder, temporary, accumulated, built_on, builder_calls>>

-----------------------------------------------------------------------------
(* Bounds of the model. *)

\* The longest command string passed to execute.
MaxLen == 3

\* The longest command string passed to execute in Spec, where calls follow
\* one another without end.
MaxLifeLen == 2

\* Spec keeps the rover within MaxCoord of the origin on both axes.
MaxCoord == 2

\* The most program_command and add_sensor calls made in SpecBuild.
MaxBuilderCalls == 3

-----------------------------------------------------------------------------
(* Direction *)

NORTH == <<0, 1>>
EAST == <<1, 0>>
SOUTH == <<0, -1>>
WEST == <<-1, 0>>

CanonicalDirections == {NORTH, EAST, SOUTH, WEST}

\* Direction::getName
getName(direction) ==
    IF direction = NORTH THEN "NORTH"
    ELSE IF direction = EAST THEN "EAST"
    ELSE IF direction = SOUTH THEN "SOUTH"
    ELSE IF direction = WEST THEN "WEST"
    ELSE "unknown"

-----------------------------------------------------------------------------
(* State *)

\* State(x, y, direction, stopped)
State(x, y, direction, stopped) ==
    [x |-> x, y |-> y, direction |-> direction, stopped |-> stopped]

\* State() = default: every member value-initialised.
DefaultState == State(0, 0, <<0, 0>>, FALSE)

-----------------------------------------------------------------------------
(* Operations: the values the factory functions return. *)

move_forward == [kind |-> "MoveForward", ops |-> <<>>]
move_backward == [kind |-> "MoveBackward", ops |-> <<>>]
rotate_left == [kind |-> "RotateLeft", ops |-> <<>>]
rotate_right == [kind |-> "RotateRight", ops |-> <<>>]
compose(ops) == [kind |-> "Compose", ops |-> ops]

-----------------------------------------------------------------------------
(* Sensors.  Sensor::is_safe is pure virtual: the concrete sensors are the  *)
(* caller's.  Three side-effect-free sensors are the inputs of the model.  *)

SensorKinds == {"RejectAll", "RejectCell02", "Fence"}

is_safe(sensor, x, y) ==
    CASE sensor = "RejectAll" -> FALSE
      [] sensor = "RejectCell02" -> ~(x = 0 /\ y = 2)
      [] sensor = "Fence" -> (x >= -1 /\ x <= 1)

-----------------------------------------------------------------------------
(* Rover.  A rover value holds the four members of the class and, beside   *)
(* them, what a call leaves for inspection: the exception thrown, the      *)
(* is_safe calls made and the primitive operations run.                    *)

\* The State objects live on the heap behind shared_ptr.  A caller that keeps
\* the pointer getState() gave it shares the object with the rover: snapshot
\* holds the values the object had when it was obtained, the values it has
\* now, whether it is still the object rover.state points to, and whether the
\* caller itself has written to it.
NoSnapshot ==
    [taken |-> FALSE, current |-> FALSE, written |-> FALSE,
     obtained |-> DefaultState, now |-> DefaultState]

\* Rover(operationsMap, sensorVec): both collections are copied, the state is
\* a default-constructed State and landed is false.
Rover(operationsMap, sensorVec) ==
    [sensors |-> sensorVec, state |-> DefaultState,
     operations |-> operationsMap, landed |-> FALSE,
     thrown |-> "none", queried |-> <<>>, ran |-> <<>>,
     snapshot |-> NoSnapshot]

\* A shared_ptr<State> that points to no object.  The value keeps the fields
\* of a State so that it can be stored where a State is; no step reads them.
NullState ==
    [x |-> 0, y |-> 0, direction |-> <<0, 0>>, stopped |-> FALSE, null |-> TRUE]

IsNull(s) == "null" \in DOMAIN s

\* The shared_ptr<State> values handed to setState: a State just made, the
\* pointer the rover holds (rover.getState()), the pointer a caller kept from
\* an earlier getState(), and the null pointer.
make_shared(value) == [object |-> "fresh", value |-> value]
current_pointer == [object |-> "current"]
held_pointer == [object |-> "held"]
nullptr == [object |-> "null"]

\* A read or a write through a null shared_ptr<State>: undefined behaviour,
\* which every build of the program turns into a memory fault that ends the
\* process (the access is a load or a store at a small address).
Fault(rover) == [rover EXCEPT !.thrown = "SIGSEGV"]

\* rover.getState(), the caller keeping the pointer.
Rover_getState(rover) ==
    [rover EXCEPT !.snapshot = [taken |-> TRUE, current |-> TRUE,
                                written |-> FALSE,
                                obtained |-> rover.state, now |-> rover.state]]

\* rover.setState(s): the rover points to the object s points to; the object
\* it pointed to is left as it is.
setState(rover, s) ==
    CASE s.object = "fresh" ->
           [rover EXCEPT !.state = s.value, !.snapshot.current = FALSE]
      [] s.object = "current" -> rover
      [] s.object = "held" ->
           [rover EXCEPT !.state = rover.snapshot.now, !.snapshot.current = TRUE]
      [] s.object = "null" ->
           [rover EXCEPT !.state = NullState,
                         !.snapshot.current =
                             rover.snapshot.taken /\ IsNull(rover.snapshot.now)]

\* rover.state->setStopped(s): writes the stopped member of the State object
\* the rover points to.
setStopped(rover, s) ==
    IF IsNull(rover.state)
    THEN Fault(rover)
    ELSE [rover EXCEPT
             !.state.stopped = s,
             !.snapshot.now.stopped = IF rover.snapshot.current THEN s ELSE @]

\* rover.getState()->setStopped(s) in the caller's code: State::setStopped is
\* public and getState() gives a pointer to a State that is not const.
caller_setStopped(rover, s) ==
    [setStopped(rover, s) EXCEPT
        !.snapshot.written = @ \/ (rover.snapshot.taken /\ rover.snapshot.current)]

\* held->setStopped(s) in the caller's code, held being the pointer the caller
\* kept from getState(): the rover sees the write if it still points there.
held_setStopped(rover, s) ==
    IF IsNull(rover.snapshot.now)
    THEN Fault(rover)
    ELSE [rover EXCEPT !.snapshot.now.stopped = s,
                       !.snapshot.written = TRUE,
                       !.state.stopped = IF rover.snapshot.current THEN s ELSE @]

\* *rover.getState() = value in the caller's code: the implicit copy
\* assignment of State writes every member of the rover's State in place.
caller_assign(rover, value) ==
    IF IsNull(rover.state)
    THEN Fault(rover)
    ELSE [rover EXCEPT
             !.state = value,
             !.snapshot.now = IF rover.snapshot.current THEN value ELSE @,
             !.snapshot.written =
                 @ \/ (rover.snapshot.taken /\ rover.snapshot.current)]

\* *held = value in the caller's code.
held_assign(rover, value) ==
    IF IsNull(rover.snapshot.now)
    THEN Fault(rover)
    ELSE [rover EXCEPT !.snapshot.now = value,
                       !.snapshot.written = TRUE,
                       !.state = IF rover.snapshot.current THEN value ELSE @]

\* The loop of danger_exists from sensor i on: the result, and the is_safe
\* calls made (none after the first sensor that reports the cell unsafe).
RECURSIVE danger_loop(_, _, _, _)
danger_loop(sensorVec, i, new_x, new_y) ==
    IF i > Len(sensorVec)
    THEN [result |-> FALSE, calls |-> <<>>]
    ELSE IF ~is_safe(sensorVec[i], new_x, new_y)
         THEN [result |-> TRUE, calls |-> <<<<sensorVec[i], new_x, new_y>>>>]
         ELSE LET rest == danger_loop(sensorVec, i + 1, new_x, new_y)
              IN  [result |-> rest.result,
                   calls |-> <<<<sensorVec[i], new_x, new_y>>>> \o rest.calls]

\* A danger_exists that returns the verdict of the first sensor alone.
danger_exists_first_only(rover, new_x, new_y) ==
    IF rover.sensors = <<>>
    THEN [result |-> FALSE, calls |-> <<>>]
    ELSE [result |-> ~is_safe(rover.sensors[1], new_x, new_y),
          calls |-> <<<<rover.sensors[1], new_x, new_y>>>>]

\* rover.danger_exists(new_x, new_y)
danger_exists(rover, new_x, new_y) == danger_loop(rover.sensors, 1, new_x, new_y)

\* An execute_move that raises stopped on a veto and forgets to restore the
\* coordinates.
execute_move_veto_moves(rover, forward) ==
    LET direction == rover.state.direction
        cand_x == IF forward THEN rover.state.x + direction[1]
                             ELSE rover.state.x - direction[1]
        cand_y == IF forward THEN rover.state.y + direction[2]
                             ELSE rover.state.y - direction[2]
        danger == danger_exists(rover, cand_x, cand_y)
        kind == IF forward THEN "MoveForward" ELSE "MoveBackward"
    IN  [setState(rover, make_shared(State(cand_x, cand_y, direction, danger.result))) EXCEPT
            !.queried = @ \o danger.calls,
            !.ran = Append(@, [kind |-> kind, stopped |-> danger.result])]

\* An execute_move whose backward branch adds the direction as well.
execute_move_backward_adds(rover, forward) ==
    LET direction == rover.state.direction
        cand_x == rover.state.x + direction[1]
        cand_y == rover.state.y + direction[2]
        danger == danger_exists(rover, cand_x, cand_y)
        new_x == IF danger.result THEN rover.state.x ELSE cand_x
        new_y == IF danger.result THEN rover.state.y ELSE cand_y
        kind == IF forward THEN "MoveForward" ELSE "MoveBackward"
    IN  [setState(rover, make_shared(State(new_x, new_y, direction, danger.result))) EXCEPT
            !.queried = @ \o danger.calls,
            !.ran = Append(@, [kind |-> kind, stopped |-> danger.result])]

\* Move::execute_move(rover, forward)
execute_move(rover, forward) ==
    LET direction == rover.state.direction
        cand_x == IF forward THEN rover.state.x + direction[1]
                             ELSE rover.state.x - direction[1]
        cand_y == IF forward THEN rover.state.y + direction[2]
                             ELSE rover.state.y - direction[2]
        danger == danger_exists(rover, cand_x, cand_y)
        stopped == danger.result
        new_x == IF danger.result THEN rover.state.x ELSE cand_x
        new_y == IF danger.result THEN rover.state.y ELSE cand_y
        new_state == make_shared(State(new_x, new_y, direction, stopped))
        kind == IF forward THEN "MoveForward" ELSE "MoveBackward"
    IN  IF IsNull(rover.state)
        THEN Fault(rover)
        ELSE [setState(rover, new_state) EXCEPT
                 !.queried = @ \o danger.calls,
                 !.ran = Append(@, [kind |-> kind, stopped |-> stopped])]

\* An execute_rotate with the two formulas exchanged.
execute_rotate_exchanged(rover, clockwise) ==
    LET d == rover.state.direction
        direction == IF clockwise THEN <<-d[2], d[1]>> ELSE <<d[2], -d[1]>>
        kind == IF clockwise THEN "RotateRight" ELSE "RotateLeft"
    IN  [setState(rover, make_shared(State(rover.state.x, rover.state.y, direction, FALSE)))
            EXCEPT !.ran = Append(@, [kind |-> kind, stopped |-> FALSE])]

\* An execute_rotate with a slip in the clockwise formula: (dy, -dy).
execute_rotate_slip(rover, clockwise) ==
    LET d == rover.state.direction
        direction == IF clockwise THEN <<d[2], -d[2]>> ELSE <<-d[2], d[2]>>
        kind == IF clockwise THEN "RotateRight" ELSE "RotateLeft"
    IN  [setState(rover, make_shared(State(rover.state.x, rover.state.y, direction, FALSE)))
            EXCEPT !.ran = Append(@, [kind |-> kind, stopped |-> FALSE])]

\* An execute_rotate that carries the stopped flag of the previous State over.
execute_rotate_keeps_stopped(rover, clockwise) ==
    LET d == rover.state.direction
        direction == IF clockwise THEN <<d[2], -d[1]>> ELSE <<-d[2], d[1]>>
        kind == IF clockwise THEN "RotateRight" ELSE "RotateLeft"
    IN  [setState(rover, make_shared(State(rover.state.x, rover.state.y, direction,
                                           rover.state.stopped)))
            EXCEPT !.ran = Append(@, [kind |-> kind,
                                      stopped |-> rover.state.stopped])]

\* Rotate::execute_rotate(rover, clockwise)
execute_rotate(rover, clockwise) ==
    LET new_x == rover.state.x
        new_y == rover.state.y
        stopped == FALSE
        d == rover.state.direction
        direction == IF clockwise THEN <<d[2], -d[1]>> ELSE <<-d[2], d[1]>>
        new_state == make_shared(State(new_x, new_y, direction, stopped))
        kind == IF clockwise THEN "RotateRight" ELSE "RotateLeft"
    IN  IF IsNull(rover.state)
        THEN Fault(rover)
        ELSE [setState(rover, new_state) EXCEPT
                 !.ran = Append(@, [kind |-> kind, stopped |-> stopped])]

RECURSIVE Operation_execute(_, _)
RECURSIVE Compose_loop(_, _, _)

\* A Compose loop without the test of the stopped flag.
RECURSIVE Compose_loop_unchecked(_, _, _)
Compose_loop_unchecked(children, i, rover) ==
    IF i > Len(children)
    THEN rover
    ELSE Compose_loop_unchecked(children, i + 1,
                                Operation_execute(children[i], rover))

\* The loop of Compose::execute from child i on.
Compose_loop(children, i, rover) ==
    IF i > Len(children)
    THEN rover
    ELSE IF IsNull(rover.state)
         THEN Fault(rover)
         ELSE IF rover.state.stopped
              THEN rover
              ELSE Compose_loop(children, i + 1,
                                Operation_execute(children[i], rover))

\* Compose::execute(rover)
Compose_execute(children, rover) == Compose_loop(children, 1, rover)

\* operation->execute(rover): the virtual call, by the operation's class.
Operation_execute(operation, rover) ==
    CASE operation.kind = "MoveForward" -> execute_move(rover, TRUE)
      [] operation.kind = "MoveBackward" -> execute_move(rover, FALSE)
      [] operation.kind = "RotateLeft" -> execute_rotate(rover, FALSE)
      [] operation.kind = "RotateRight" -> execute_rotate(rover, TRUE)
      [] operation.kind = "Compose" -> Compose_execute(operation.ops, rover)

\* A land that installs the new State and leaves the landed flag as it was.
Rover_land_flag_untouched(rover, coordinates, direction) ==
    setState(rover, make_shared(State(coordinates[1], coordinates[2], direction, FALSE)))

\* A land that carries the stopped flag of the previous State over.
Rover_land_keeps_stopped(rover, coordinates, direction) ==
    setState([rover EXCEPT !.landed = TRUE],
             make_shared(State(coordinates[1], coordinates[2], direction,
                               rover.state.stopped)))

\* rover.land(coordinates, direction)
Rover_land(rover, coordinates, direction) ==
    LET x == coordinates[1]
        y == coordinates[2]
        new_state == make_shared(State(x, y, direction, FALSE))
    IN  setState([rover EXCEPT !.landed = TRUE], new_state)

\* A loop that marks the state stopped at an unregistered token and goes on to
\* the next token (continue for break).
RECURSIVE execute_loop_continues(_, _, _)
execute_loop_continues(rover, commands, i) ==
    IF i > Len(commands)
    THEN rover
    ELSE LET key == commands[i]
         IN  IF key \notin DOMAIN rover.operations
             THEN execute_loop_continues(setStopped(rover, TRUE), commands, i + 1)
             ELSE execute_loop_continues(
                      Operation_execute(rover.operations[key], rover),
                      commands, i + 1)

\* A loop that leaves the last token of the string out.
RECURSIVE execute_loop_short(_, _, _)
execute_loop_short(rover, commands, i) ==
    IF i >= Len(commands)
    THEN rover
    ELSE LET key == commands[i]
         IN  IF key \notin DOMAIN rover.operations
             THEN setStopped(rover, TRUE)
             ELSE execute_loop_short(
                      Operation_execute(rover.operations[key], rover),
                      commands, i + 1)

\* A loop that tests the stopped flag before every token, as Compose does.
RECURSIVE execute_loop_checked(_, _, _)
execute_loop_checked(rover, commands, i) ==
    IF i > Len(commands) \/ rover.state.stopped
    THEN rover
    ELSE LET key == commands[i]
         IN  IF key \notin DOMAIN rover.operations
             THEN setStopped(rover, TRUE)
             ELSE execute_loop_checked(
                      Operation_execute(rover.operations[key], rover),
                      commands, i + 1)

\* A loop that reads operations[key] before it tests the token: the map gains
\* a binding for the unregistered token.
RECURSIVE execute_loop_inserts(_, _, _)
execute_loop_inserts(rover, commands, i) ==
    IF i > Len(commands)
    THEN rover
    ELSE LET key == commands[i]
         IN  IF key \notin DOMAIN rover.operations
             THEN setStopped(
                      [rover EXCEPT !.operations =
                          [k \in DOMAIN @ \cup {key} |->
                              IF k = key THEN compose(<<>>) ELSE @[k]]],
                      TRUE)
             ELSE execute_loop_inserts(
                      Operation_execute(rover.operations[key], rover),
                      commands, i + 1)

\* The for loop of Rover::execute from token i on.
RECURSIVE execute_loop(_, _, _)
execute_loop(rover, commands, i) ==
    IF i > Len(commands)
    THEN rover
    ELSE LET key == commands[i]
         IN  IF key \notin DOMAIN rover.operations
             THEN setStopped(rover, TRUE)
             ELSE execute_loop(Operation_execute(rover.operations[key], rover),
                               commands, i + 1)

\* An execute that tests the landed flag after the loop instead of before it.
Rover_execute_late_check(rover, commands) ==
    LET r == execute_loop(setStopped(rover, FALSE), commands, 1)
    IN  IF ~rover.landed THEN [r EXCEPT !.thrown = "RoverNotLanded"] ELSE r

\* An execute that does not clear the stopped flag on entry.
Rover_execute_keeps_stopped(rover, commands) ==
    IF ~rover.landed
    THEN [rover EXCEPT !.thrown = "RoverNotLanded"]
    ELSE execute_loop(rover, commands, 1)

\* rover.execute(commands)
Rover_execute(rover, commands) ==
    IF ~rover.landed
    THEN [rover EXCEPT !.thrown = "RoverNotLanded"]
    ELSE IF IsNull(rover.state)
         THEN setStopped(rover, FALSE)
         ELSE execute_loop(setStopped(rover, FALSE), commands, 1)

-----------------------------------------------------------------------------
(* RoverBuilder.  A builder value holds the two members of the class.  The *)
(* operators give the object after the call; program_command and          *)
(* add_sensor return RoverBuilder by value, a copy of that object.         *)

\* RoverBuilder(): both collections are empty.
RoverBuilder ==
    [builder_operations |-> [key \in {} |-> move_forward], builder_sensors |-> <<>>]

\* b.program_command(key, op): builder_operations[key] = op
program_command(b, key, op) ==
    [b EXCEPT !.builder_operations =
        [k \in DOMAIN @ \cup {key} |-> IF k = key THEN op ELSE @[k]]]

\* b.add_sensor(sensor): builder_sensors.push_back(sensor)
add_sensor(b, sensor) ==
    [b EXCEPT !.builder_sensors = Append(@, sensor)]

\* b.build()
build(b) == Rover(b.builder_operations, b.builder_sensors)

-----------------------------------------------------------------------------
(* The inputs of the model. *)

\* The characters of the command strings; "x" is bound in no configuration.
Tokens == {"f", "b", "l", "r", "c", "x"}

\* Longer command strings: the example "ffrff" and four rotations in a row.
ExampleCommands ==
    {<<"f", "f", "r", "f", "f">>, <<"r", "r", "r", "r">>, <<"l", "l", "l", "l">>}

\* The command strings passed to execute: in SpecCall, and in Spec.
CommandStrings ==
    UNION {[1..n -> Tokens] : n \in 0..MaxLen} \cup ExampleCommands
LifeCommandStrings == UNION {[1..n -> Tokens] : n \in 0..MaxLifeLen}

\* The command strings of SpecCanonical: the empty string and every token
\* alone; longer strings are made of successive calls.
StepCommandStrings == {<<>>} \cup {<<token>> : token \in Tokens}

\* Two registries, as RoverBuilder::program_command accumulates them: the
\* four primitives, and "c" bound to a Compose (flat in the first, nested in
\* the second).
OperationsFlat ==
    [key \in {"f", "b", "l", "r", "c"} |->
        CASE key = "f" -> move_forward
          [] key = "b" -> move_backward
          [] key = "l" -> rotate_left
          [] key = "r" -> rotate_right
          [] key = "c" -> compose(<<move_forward, rotate_right, move_forward>>)]

OperationsNested ==
    [key \in {"f", "b", "l", "r", "c"} |->
        CASE key = "f" -> move_forward
          [] key = "b" -> move_backward
          [] key = "l" -> rotate_left
          [] key = "r" -> rotate_right
          [] key = "c" -> compose(<<compose(<<move_forward, move_forward>>),
                                    rotate_left, move_backward>>)]

OperationsMaps == {OperationsFlat, OperationsNested}

\* The sensor vectors, as RoverBuilder::add_sensor accumulates them.
SensorVecs ==
    {<<>>, <<"RejectAll">>, <<"RejectCell02">>, <<"Fence">>,
     <<"RejectCell02", "Fence">>, <<"Fence", "RejectCell02">>,
     <<"Fence", "RejectAll">>}

\* The arguments of land: a few cells, the four canonical directions and one
\* vector that is none of them.
LandCoordinates == {<<0, 0>>, <<0, 1>>, <<1, -1>>}
LandDirections == CanonicalDirections \cup {<<1, 2>>}

\* The tokens, operations and sensors handed to the builder in SpecBuild, the
\* RoverBuilder a call is made on, and the command strings the rover executes.
BuilderKeys == {"f", "r"}
BuilderOperations == {move_forward, rotate_right}
BuilderSensors == {"RejectAll", "Fence"}
BuilderTargets == {"builder", "temporary"}
BuildCommandStrings == {<<"f">>, <<"r">>, <<"x">>}

\* The State values a caller makes, and the pointers it hands to the public
\* rover.setState: to a State it has just made, the rover's own pointer, the
\* null pointer and, in SpecSnapshot, the pointer it kept from getState().
CallerStates == {State(1, 1, NORTH, FALSE), State(2, -2, <<1, 2>>, TRUE)}
CallerPointers ==
    {make_shared(value) : value \in CallerStates} \cup {current_pointer, nullptr}

\* The command strings executed in SpecSnapshot.
SnapshotCommandStrings == {<<>>, <<"x">>, <<"f">>, <<"r">>}

\* The operations executed directly on a rover in SpecCall.
OperationPool ==
    {move_forward, move_backward, rotate_left, rotate_right,
     compose(<<>>),
     compose(<<move_forward, rotate_right, move_forward>>),
     compose(<<compose(<<move_forward, move_forward>>), rotate_left, move_backward>>),
     compose(<<rotate_right, compose(<<move_backward, compose(<<move_forward>>)>>),
               move_forward>>)}

\* The cells danger_exists is asked about in SpecCall.
QueryCells == {<<x, y>> : x \in -2..2, y \in {0, 2}}

\* ostream << int32_t: the decimal digits of n, after a minus sign if n < 0.
RECURSIVE digits(_)
digits(n) ==
    LET digit == <<"0", "1", "2", "3", "4", "5", "6", "7", "8", "9">>
    IN  IF n < 10 THEN digit[n + 1]
        ELSE digits(n \div 10) \o digit[(n % 10) + 1]

insert_int(n) == IF n < 0 THEN "-" \o digits(-n) ELSE digits(n)

\* operator<< with the stopped suffix written before the name is tested.
Rover_insert_suffix_first(rover) ==
    LET name == getName(rover.state.direction)
        suffix == IF rover.state.stopped THEN " stopped" ELSE ""
    IN  IF name = "unknown" THEN name \o suffix
        ELSE "(" \o insert_int(rover.state.x) \o ", " \o insert_int(rover.state.y)
                 \o ") " \o name \o suffix

\* operator<<(ostream, Rover): the characters written to the stream.
Rover_insert(rover) ==
    LET name == getName(rover.state.direction)
    IN  IF name = "unknown" THEN name
        ELSE "(" \o insert_int(rover.state.x) \o ", " \o insert_int(rover.state.y)
                 \o ") " \o name
                 \o (IF rover.state.stopped THEN " stopped" ELSE "")

-----------------------------------------------------------------------------
(* The state machine. *)

\* The rover the variables describe, with nothing recorded yet.
Self ==
    [sensors |-> sensors, state |-> state, operations |-> operations,
     landed |-> landed, thrown |-> "none", queried |-> <<>>, ran |-> <<>>,
     snapshot |-> snapshot]

\* The process runs: no memory fault has ended it.
Alive == thrown # "SIGSEGV"

\* The rover r becomes the rover of the next state.
Install(r) ==
    /\ Alive
    /\ sensors' = r.sensors
    /\ state' = r.state
    /\ operations' = r.operations
    /\ landed' = r.landed
    /\ snapshot' = r.snapshot

\* The call kind(a), which leaves the rover r, is kept for inspection.
Observe(kind, a, r, result) ==
    /\ observed' = TRUE
    /\ call' = kind
    /\ thrown' = r.thrown
    /\ args' = a
    /\ pre' = [state |-> state, landed |-> landed]
    /\ returned' = result
    /\ queried' = r.queried
    /\ ran' = r.ran

InGrid(s) ==
    /\ s.x >= -MaxCoord /\ s.x <= MaxCoord
    /\ s.y >= -MaxCoord /\ s.y <= MaxCoord

NothingObserved ==
    /\ observed = FALSE
    /\ args = <<>>
    /\ pre = [state |-> DefaultState, landed |-> FALSE]
    /\ returned = FALSE
    /\ queried = <<>>
    /\ ran = <<>>

\* A rover as RoverBuilder::build() returns it, and the builder it came from.
Init ==
    /\ \E operationsMap \in OperationsMaps, sensorVec \in SensorVecs :
         LET b == [builder_operations |-> operationsMap,
                   builder_sensors |-> sensorVec]
             r == build(b)
         IN  /\ sensors = r.sensors
             /\ state = r.state
             /\ operations = r.operations
             /\ landed = r.landed
             /\ snapshot = r.snapshot
             /\ builder = b
             /\ accumulated = b
    /\ temporary = <<>>
    /\ built_on = "builder"
    /\ builder_calls = 0
    /\ land_called = FALSE
    /\ call = "none"
    /\ thrown = "none"
    /\ NothingObserved

\* rover.land(coordinates, direction)
Land(coordinates, direction) ==
    LET r == Rover_land(Self, coordinates, direction)
    IN  /\ Install(r)
        /\ land_called' = TRUE
        /\ call' = "land"
        /\ thrown' = r.thrown
        /\ UNCHANGED <<observed_vars, builder_vars>>

\* rover.execute(commands); the guard keeps the rover within MaxCoord.
Execute(commands) ==
    \E r \in {Rover_execute(Self, commands)} :
        /\ InGrid(r.state)
        /\ Install(r)
        /\ call' = "execute"
        /\ thrown' = r.thrown
        /\ UNCHANGED <<land_called, observed_vars, builder_vars>>

\* A call the rover's user makes on the rover or on a State, which leaves
\* the rover r.
CallerStep(kind, r) ==
    /\ Install(r)
    /\ call' = kind
    /\ thrown' = r.thrown
    /\ UNCHANGED <<land_called, observed_vars, builder_vars>>

\* rover.setState(s), called by the rover's user.
SetState(s) ==
    /\ s = held_pointer => snapshot.taken
    /\ CallerStep("setState", setState(Self, s))

\* rover.getState()->setStopped(s), called by the rover's user.
SetStopped(s) == CallerStep("setStopped", caller_setStopped(Self, s))

\* *rover.getState() = value, written by the rover's user.
AssignState(value) == CallerStep("assign", caller_assign(Self, value))

Next ==
    \/ \E coordinates \in LandCoordinates, direction \in LandDirections :
         Land(coordinates, direction)
    \/ \E commands \in LifeCommandStrings : Execute(commands)
    \/ \E s \in CallerPointers : SetState(s)
    \/ \E s \in BOOLEAN : SetStopped(s)
    \/ \E value \in CallerStates : AssignState(value)

Spec == Init /\ [][Next]_vars

\* SpecCanonical: rover.land(coordinates, direction), with the arguments and
\* the rover before the call kept.
KeptLand(coordinates, direction) ==
    LET r == Rover_land(Self, coordinates, direction)
    IN  /\ Install(r)
        /\ land_called' = TRUE
        /\ call' = "land"
        /\ thrown' = r.thrown
        /\ args' = <<coordinates, direction>>
        /\ pre' = [state |-> state, landed |-> landed]
        /\ UNCHANGED <<observed, returned, queried, ran, builder_vars>>

\* SpecCanonical: rover.execute(commands), with the commands and the rover
\* before the call kept.
KeptExecute(commands) ==
    \E r \in {Rover_execute(Self, commands)} :
        /\ InGrid(r.state)
        /\ Install(r)
        /\ call' = "execute"
        /\ thrown' = r.thrown
        /\ args' = commands
        /\ pre' = [state |-> state, landed |-> landed]
        /\ UNCHANGED <<land_called, observed, returned, queried, ran, builder_vars>>

\* Every land passes one of the four directions of Direction.
NextCanonical ==
    \/ \E coordinates \in LandCoordinates, direction \in CanonicalDirections :
         KeptLand(coordinates, direction)
    \/ \E commands \in StepCommandStrings : KeptExecute(commands)

SpecCanonical == Init /\ [][NextCanonical]_vars

\* SpecCall: the calls that are observed.
CallLand(coordinates, direction) ==
    LET r == Rover_land(Self, coordinates, direction)
    IN  /\ ~observed
        /\ Install(r)
        /\ land_called' = TRUE
        /\ UNCHANGED builder_vars
        /\ Observe("land", <<coordinates, direction>>, r, FALSE)

CallExecute(commands) ==
    \E r \in {Rover_execute(Self, commands)} :
        /\ ~observed
        /\ Install(r)
        /\ UNCHANGED <<land_called, builder_vars>>
        /\ Observe("execute", commands, r, FALSE)

\* rover.danger_exists(new_x, new_y)
CallDangerExists(new_x, new_y) ==
    LET d == danger_exists(Self, new_x, new_y)
    IN  /\ ~observed
        /\ Alive
        /\ UNCHANGED <<rover_vars, land_called, builder_vars>>
        /\ Observe("danger_exists", <<new_x, new_y>>,
                   [Self EXCEPT !.queried = d.calls], d.result)

\* operation->execute(&rover)
CallOperation(operation) ==
    \E r \in {Operation_execute(operation, Self)} :
        /\ ~observed
        /\ Install(r)
        /\ UNCHANGED <<land_called, builder_vars>>
        /\ Observe("operation", operation, r, FALSE)

\* output << rover
CallInsert ==
    /\ ~observed
    /\ Alive
    /\ UNCHANGED <<rover_vars, land_called, builder_vars>>
    /\ IF IsNull(state)
       THEN Observe("insert", <<>>, Fault(Self), "")
       ELSE Observe("insert", <<>>, Self, Rover_insert(Self))

\* Before the observed call the rover may be landed, may be left stopped by
\* an execute whose only token is bound to no operation, and may be given a
\* State or a stopped flag by its user.
NextCall ==
    \/ /\ ~observed
       /\ \E coordinates \in LandCoordinates, direction \in LandDirections :
            Land(coordinates, direction)
    \/ /\ ~observed
       /\ Execute(<<"x">>)
    \/ /\ ~observed
       /\ \E s \in CallerPointers : SetState(s)
    \/ /\ ~observed
       /\ \E s \in BOOLEAN : SetStopped(s)
    \/ /\ ~observed
       /\ \E value \in CallerStates : AssignState(value)
    \/ /\ ~observed
       /\ \E coordinates \in LandCoordinates, direction \in LandDirections :
            CallLand(coordinates, direction)
    \/ /\ ~observed
       /\ \E commands \in CommandStrings : CallExecute(commands)
    \/ /\ ~observed
       /\ \E cell \in QueryCells : CallDangerExists(cell[1], cell[2])
    \/ /\ ~observed
       /\ \E operation \in OperationPool : CallOperation(operation)
    \/ CallInsert

SpecCall == Init /\ [][NextCall]_vars

\* SpecSnapshot: auto s = rover.getState(), once.
GetState ==
    /\ ~snapshot.taken
    /\ Install(Rover_getState(Self))
    /\ UNCHANGED <<land_called, call, thrown, observed_vars, builder_vars>>

\* The rover lands and executes; at some point a caller obtains its State
\* and holds it through the calls that follow.
\* held->setStopped(s), held being the State the caller obtained.
HeldSetStopped(s) ==
    /\ snapshot.taken
    /\ CallerStep("setStopped", held_setStopped(Self, s))

\* *held = value, held being the State the caller obtained.
HeldAssign(value) ==
    /\ snapshot.taken
    /\ CallerStep("assign", held_assign(Self, value))

NextSnapshot ==
    \/ GetState
    \/ Land(<<0, 0>>, NORTH)
    \/ \E commands \in SnapshotCommandStrings : Execute(commands)
    \/ \E s \in CallerPointers \cup {held_pointer} : SetState(s)
    \/ \E s \in BOOLEAN : SetStopped(s)
    \/ \E value \in CallerStates : AssignState(value)
    \/ \E s \in BOOLEAN : HeldSetStopped(s)
    \/ \E value \in CallerStates : HeldAssign(value)

\* SpecSnapshot: the rover is built with OperationsFlat and with one sensor,
\* which vetoes every move.
InitSnapshot ==
    /\ Init
    /\ operations = OperationsFlat
    /\ sensors = <<"RejectAll">>

SpecSnapshot == InitSnapshot /\ [][NextSnapshot]_vars

\* SpecBuild: a RoverBuilder as its constructor leaves it; no rover exists.
InitBuild ==
    /\ builder = RoverBuilder
    /\ temporary = <<>>
    /\ accumulated = RoverBuilder
    /\ built_on = "none"
    /\ builder_calls = 0
    /\ sensors = <<>>
    /\ state = DefaultState
    /\ operations = RoverBuilder.builder_operations
    /\ landed = FALSE
    /\ snapshot = NoSnapshot
    /\ land_called = FALSE
    /\ call = "none"
    /\ thrown = "none"
    /\ NothingObserved

\* The RoverBuilder b after the call request is made on it.
Called(b, request) ==
    IF request.method = "program_command"
    THEN program_command(b, request.key, request.op)
    ELSE add_sensor(b, request.sensor)

\* The call request is made on the RoverBuilder named by target: it changes
\* that object and returns a copy of it, the new temporary.
BuilderCall(target, request) ==
    /\ builder_calls < MaxBuilderCalls
    /\ builder_calls' = builder_calls + 1
    /\ IF target = "builder"
       THEN /\ builder' = Called(builder, request)
            /\ temporary' = <<Called(builder, request)>>
       ELSE /\ temporary # <<>>
            /\ temporary' = <<Called(temporary[1], request)>>
            /\ UNCHANGED builder
    /\ accumulated' = IF built_on = "none" THEN Called(accumulated, request)
                      ELSE accumulated
    /\ UNCHANGED <<rover_vars, land_called, call, thrown, observed_vars, built_on>>

\* target.program_command(key, op)
ProgramCommand(target, key, op) ==
    BuilderCall(target, [method |-> "program_command", key |-> key, op |-> op])

\* target.add_sensor(sensor)
AddSensor(target, sensor) ==
    BuilderCall(target, [method |-> "add_sensor", sensor |-> sensor])

\* Rover rover = target.build()
Build(target) ==
    /\ built_on = "none"
    /\ target = "temporary" => temporary # <<>>
    /\ Install(build(IF target = "builder" THEN builder ELSE temporary[1]))
    /\ built_on' = target
    /\ UNCHANGED <<land_called, call, thrown, observed_vars,
                   builder, temporary, accumulated, builder_calls>>

\* The builder is programmed, on the object itself or on the value a previous
\* call returned; a rover is built, then lands and executes while the
\* builders are programmed further.
NextBuild ==
    \/ \E target \in BuilderTargets, key \in BuilderKeys, op \in BuilderOperations :
         ProgramCommand(target, key, op)
    \/ \E target \in BuilderTargets, sensor \in BuilderSensors :
         AddSensor(target, sensor)
    \/ \E target \in BuilderTargets : Build(target)
    \/ /\ built_on # "none"
       /\ Land(<<0, 0>>, NORTH)
    \/ /\ built_on # "none"
       /\ \E commands \in BuildCommandStrings : Execute(commands)

SpecBuild == InitBuild /\ [][NextBuild]_vars

-----------------------------------------------------------------------------
(* Claims. *)

\* C1: over any sequence of land and execute calls on one rover, an execute
\* call raises RoverNotLanded if and only if no land call has preceded it; the
\* landed flag is set by the first land and never cleared, whatever the stopped
\* flag and the outcome of earlier execute calls.
C1_NotLandedIffNoLandBefore ==
    /\ landed <=> land_called
    /\ call = "execute" => ((thrown = "RoverNotLanded") <=> ~land_called)

\* C1 witness: an execute call after a land returned normally although it
\* ended stopped.
C1_Witness ==
    /\ land_called
    /\ call = "execute"
    /\ thrown = "none"
    /\ state.stopped

\* The rover as it was before the call SpecCall observed.
PreRover == [Self EXCEPT !.state = pre.state, !.landed = pre.landed]

\* The place of the first token of commands bound to no operation, 0 if none.
FirstUnregistered(commands) ==
    LET unbound == {i \in DOMAIN commands : commands[i] \notin DOMAIN operations}
    IN  IF unbound = {} THEN 0
        ELSE CHOOSE i \in unbound : \A j \in unbound : i <= j

\* C2: when execute fails with RoverNotLanded nothing has been executed:
\* position, direction, stopped and landed are as before the call, no sensor
\* has been queried and no operation has run, whatever the command string.
C2_NotLandedExecutesNothing ==
    (observed /\ call = "execute" /\ thrown = "RoverNotLanded") =>
        /\ state = pre.state
        /\ landed = pre.landed
        /\ queried = <<>>
        /\ ran = <<>>

\* C2 witness: a failed execute whose string holds a registered Move and an
\* unregistered token, on a rover that has sensors.
C2_Witness ==
    /\ observed
    /\ call = "execute"
    /\ thrown = "RoverNotLanded"
    /\ sensors # <<>>
    /\ \E i, j \in DOMAIN args : args[i] = "f" /\ args[j] = "x"

\* C3: immediately after land(pos, dir), called in any rover state, the rover
\* is landed, at pos, facing dir, not stopped; nothing else of the previous
\* State survives.
C3_LandInstallsGivenState ==
    (observed /\ call = "land") =>
        /\ landed
        /\ thrown = "none"
        /\ state = State(args[1][1], args[1][2], args[2], FALSE)

\* C3 witness: a land on a landed, stopped rover that stood elsewhere and
\* faced another direction.
C3_Witness ==
    /\ observed
    /\ call = "land"
    /\ pre.landed
    /\ pre.state.stopped
    /\ <<pre.state.x, pre.state.y>> # args[1]
    /\ pre.state.direction # args[2]

\* C4: on a landed rover, for every string p + X + s with X the first
\* unregistered token, execute returns stopped, with the position and the
\* direction reached by executing p alone, and applies no token of s: the
\* operations run and the sensors queried are those of p.
C4_UnregisteredTokenHalts ==
    (observed /\ call = "execute" /\ thrown = "none"
        /\ FirstUnregistered(args) # 0) =>
        LET p == SubSeq(args, 1, FirstUnregistered(args) - 1)
            after_p == Rover_execute(PreRover, p)
        IN  /\ state.stopped
            /\ state.x = after_p.state.x
            /\ state.y = after_p.state.y
            /\ state.direction = after_p.state.direction
            /\ ran = after_p.ran
            /\ queried = after_p.queried

\* C4 witness: "fxf": the first f moved the rover one step, x halted it and
\* the second f was not applied.
C4_Witness ==
    /\ observed
    /\ call = "execute"
    /\ thrown = "none"
    /\ args = <<"f", "x", "f">>
    /\ state.x = pre.state.x + pre.state.direction[1]
    /\ state.y = pre.state.y + pre.state.direction[2]
    /\ <<state.x, state.y>> # <<pre.state.x, pre.state.y>>
    /\ state.stopped
    /\ Len(ran) = 1

\* A Move of the call was vetoed by the sensors.
MoveVetoed == \E i \in DOMAIN ran : ran[i].stopped

\* C5: during an execute call on a landed rover every failure is surfaced
\* through the stopped flag: if a Move was vetoed or an unregistered token was
\* met in the call, stopped is true when the call returns.
C5_EveryFailureLeavesStopped ==
    (observed /\ call = "execute" /\ thrown = "none"
        /\ (MoveVetoed \/ FirstUnregistered(args) # 0)) => state.stopped

\* The candidate cell of the Move SpecCall observed.
Candidate ==
    LET d == pre.state.direction
    IN  IF args.kind = "MoveForward"
        THEN <<pre.state.x + d[1], pre.state.y + d[2]>>
        ELSE <<pre.state.x - d[1], pre.state.y - d[2]>>

\* Every sensor of the rover reports the cell safe.
AllSafe(cell) == \A i \in DOMAIN sensors : is_safe(sensors[i], cell[1], cell[2])

\* C6: MoveForward (MoveBackward) queries the sensors for the cell at position
\* plus (minus) direction and for no other; if the cell is safe the new State
\* is the cell, the same direction, stopped = false; if it is unsafe the new
\* State is the old position, the same direction, stopped = true.  With a
\* sensor that rejects every cell the position is unchanged and stopped set.
\* (Of a Move that returned: the rover points to a State.)
C6_MoveIsGatedByCandidateCell ==
    (observed /\ call = "operation" /\ thrown = "none"
        /\ args.kind \in {"MoveForward", "MoveBackward"}) =>
        /\ \A q \in DOMAIN queried :
             <<queried[q][2], queried[q][3]>> = Candidate
        /\ sensors # <<>> => queried # <<>>
        /\ AllSafe(Candidate) =>
             state = State(Candidate[1], Candidate[2], pre.state.direction, FALSE)
        /\ ~AllSafe(Candidate) =>
             state = State(pre.state.x, pre.state.y, pre.state.direction, TRUE)
        /\ (\E i \in DOMAIN sensors : sensors[i] = "RejectAll") =>
             state = State(pre.state.x, pre.state.y, pre.state.direction, TRUE)

\* C6 witness: a MoveBackward vetoed by a sensor that rejects only some cells,
\* on a rover that was not stopped.
C6_Witness ==
    /\ observed
    /\ call = "operation"
    /\ args.kind = "MoveBackward"
    /\ ~pre.state.stopped
    /\ \A i \in DOMAIN sensors : sensors[i] # "RejectAll"
    /\ Candidate # <<pre.state.x, pre.state.y>>
    /\ state.stopped

\* The primitive operations of an operation, in the order of construction.
RECURSIVE Primitives(_)
RECURSIVE PrimitivesOfAll(_, _)
PrimitivesOfAll(children, i) ==
    IF i > Len(children) THEN <<>>
    ELSE Primitives(children[i]) \o PrimitivesOfAll(children, i + 1)

Primitives(operation) ==
    IF operation.kind = "Compose" THEN PrimitivesOfAll(operation.ops, 1)
    ELSE <<operation.kind>>

\* C7: a Compose runs its children in construction order and runs no further
\* child once the current State is stopped, through nested Composes too: the
\* primitives run are a prefix of the Compose's primitives, none but the last
\* left the State stopped, and a primitive is left out only if the State is
\* stopped; started on a stopped State the Compose runs nothing and changes
\* nothing.  Compose[MoveForward, RotateRight, MoveForward] with the first move
\* vetoed leaves position and direction unchanged and stopped = true.
\* (Of a Compose that returned: the rover points to a State.)
C7_ComposeShortCircuits ==
    (observed /\ call = "operation" /\ thrown = "none" /\ args.kind = "Compose") =>
        /\ Len(ran) <= Len(Primitives(args))
        /\ \A i \in DOMAIN ran : ran[i].kind = Primitives(args)[i]
        /\ \A i \in DOMAIN ran : ran[i].stopped => i = Len(ran)
        /\ Len(ran) < Len(Primitives(args)) => state.stopped
        /\ pre.state.stopped => ran = <<>>
        /\ ran = <<>> => state = pre.state
        /\ (/\ args = compose(<<move_forward, rotate_right, move_forward>>)
            /\ ran # <<>>
            /\ ran[1].stopped) =>
               /\ Len(ran) = 1
               /\ state = [pre.state EXCEPT !.stopped = TRUE]

\* C7 witness: in Compose[Compose[MoveForward, MoveForward], RotateLeft,
\* MoveBackward] the second move of the inner Compose was vetoed, which ended
\* the outer Compose as well.
C7_Witness ==
    /\ observed
    /\ call = "operation"
    /\ args = compose(<<compose(<<move_forward, move_forward>>),
                        rotate_left, move_backward>>)
    /\ Len(ran) = 2
    /\ ran[2].stopped
    /\ state.direction = pre.state.direction

\* C8: an execute call on a landed rover starts from a clean slate: State,
\* operations run and sensors queried at return are those of the same call made
\* with the stopped flag the other way; execute("") leaves stopped = false and
\* the rest unchanged; a Compose bound to the first token runs its children
\* even when the rover was stopped.
C8_ExecuteStartsClean ==
    (observed /\ call = "execute" /\ thrown = "none") =>
        LET flipped == [PreRover EXCEPT !.state.stopped = ~pre.state.stopped]
            other == Rover_execute(flipped, args)
        IN  /\ other.state = state
            /\ other.ran = ran
            /\ other.queried = queried
            /\ args = <<>> => state = [pre.state EXCEPT !.stopped = FALSE]
            /\ (/\ args # <<>>
                /\ args[1] \in DOMAIN operations
                /\ operations[args[1]].kind = "Compose") => ran # <<>>

\* C8 witness: execute of a string that starts with the Compose token, on a
\* rover left stopped, ran the Compose's first child and ended not stopped.
C8_Witness ==
    /\ observed
    /\ call = "execute"
    /\ thrown = "none"
    /\ pre.state.stopped
    /\ args # <<>>
    /\ args[1] = "c"
    /\ ran # <<>>
    /\ ~state.stopped

\* C9: RotateRight maps direction (dx, dy) to (dy, -dx), RotateLeft to
\* (-dy, dx); the position is carried over, no sensor is queried and the new
\* State is never stopped.  (Of a Rotate that returned: the rover points to a
\* State.)
C9_RotateTurnsInPlace ==
    (observed /\ call = "operation" /\ thrown = "none"
        /\ args.kind \in {"RotateLeft", "RotateRight"}) =>
        LET d == pre.state.direction
        IN  /\ args.kind = "RotateRight" => state.direction = <<d[2], -d[1]>>
            /\ args.kind = "RotateLeft" => state.direction = <<-d[2], d[1]>>
            /\ state.x = pre.state.x
            /\ state.y = pre.state.y
            /\ queried = <<>>
            /\ ~state.stopped

\* C9 witness: a RotateRight from (1, 2) to (2, -1) on a rover whose sensors
\* reject every cell.
C9_Witness ==
    /\ observed
    /\ call = "operation"
    /\ args.kind = "RotateRight"
    /\ \E i \in DOMAIN sensors : sensors[i] = "RejectAll"
    /\ pre.state.direction = <<1, 2>>
    /\ state.direction = <<2, -1>>

\* The sensors of the rover in another order.
Reordered(f) == [i \in DOMAIN sensors |-> sensors[f[i]]]

\* C10: danger_exists(x, y) is true if and only if at least one sensor of the
\* rover reports is_safe(x, y) false; it is false with no sensor, and the same
\* for every order of the sensors.
C10_DangerIffSomeSensorUnsafe ==
    (observed /\ call = "danger_exists") =>
        /\ returned <=> ~AllSafe(args)
        /\ sensors = <<>> => ~returned
        /\ \A f \in Permutations(DOMAIN sensors) :
             danger_exists([Self EXCEPT !.sensors = Reordered(f)],
                           args[1], args[2]).result = returned

\* C10 witness: with two sensors, the first reports the cell safe and the
\* second unsafe.
C10_Witness ==
    /\ observed
    /\ call = "danger_exists"
    /\ Len(sensors) = 2
    /\ is_safe(sensors[1], args[1], args[2])
    /\ ~is_safe(sensors[2], args[1], args[2])
    /\ returned
    /\ Len(queried) = 2

\* The operations bound to the tokens of commands, applied one after another
\* from the left to the rover.
RECURSIVE ApplyInOrder(_, _, _)
ApplyInOrder(rover, commands, i) ==
    IF i = 0 THEN rover
    ELSE Operation_execute(rover.operations[commands[i]],
                           ApplyInOrder(rover, commands, i - 1))

\* C11: on a landed rover, for a command string of registered tokens only,
\* the State at return is the result of applying the bound operations one
\* after another, left to right, one per token, to the State at entry with
\* stopped cleared.  Landed at (0,0) facing NORTH with no sensors, "ffrff"
\* ends at (2,2) facing EAST, not stopped.
C11_TokensAppliedInOrder ==
    (observed /\ call = "execute" /\ thrown = "none"
        /\ FirstUnregistered(args) = 0) =>
        LET entry == [PreRover EXCEPT !.state.stopped = FALSE]
            result == ApplyInOrder(entry, args, Len(args))
        IN  /\ state = result.state
            /\ ran = result.ran
            /\ (/\ args = <<"f", "f", "r", "f", "f">>
                /\ sensors = <<>>
                /\ pre.state.x = 0 /\ pre.state.y = 0
                /\ pre.state.direction = NORTH) =>
                   state = State(2, 2, EAST, FALSE)

\* C11 witness: the example.
C11_Witness ==
    /\ observed
    /\ call = "execute"
    /\ args = <<"f", "f", "r", "f", "f">>
    /\ sensors = <<>>
    /\ pre.state.x = 0 /\ pre.state.y = 0
    /\ pre.state.direction = NORTH
    /\ state = State(2, 2, EAST, FALSE)
    /\ Len(ran) = 5

\* C13: four RotateRight in a row, and four RotateLeft in a row, restore the
\* direction exactly, canonical or not, and leave the position as it was.
C13_FourRotationsRestore ==
    (observed /\ call = "execute" /\ thrown = "none"
        /\ args \in {<<"r", "r", "r", "r">>, <<"l", "l", "l", "l">>}) =>
        /\ Len(ran) = 4
        /\ \A i \in DOMAIN ran :
             ran[i].kind = IF args[1] = "r" THEN "RotateRight" ELSE "RotateLeft"
        /\ state.direction = pre.state.direction
        /\ state.x = pre.state.x
        /\ state.y = pre.state.y

\* C13 witness: four RotateLeft from the direction (1, 2).
C13_Witness ==
    /\ observed
    /\ call = "execute"
    /\ thrown = "none"
    /\ args = <<"l", "l", "l", "l">>
    /\ pre.state.direction = <<1, 2>>
    /\ state.direction = <<1, 2>>
    /\ Len(ran) = 4

\* C14: MoveForward then MoveBackward, and MoveBackward then MoveForward, with
\* neither candidate cell reported unsafe, restore position and direction and
\* leave stopped = false.
C14_ForwardBackwardRestores ==
    (observed /\ call = "execute" /\ thrown = "none"
        /\ args \in {<<"f", "b">>, <<"b", "f">>}
        /\ ~MoveVetoed) =>
        /\ Len(ran) = 2
        /\ state = [pre.state EXCEPT !.stopped = FALSE]

\* C14 witness: "bf" from a direction that is not canonical, under sensors
\* that were queried and reported both cells safe.
C14_Witness ==
    /\ observed
    /\ call = "execute"
    /\ thrown = "none"
    /\ args = <<"b", "f">>
    /\ ~MoveVetoed
    /\ Len(queried) >= 2
    /\ pre.state.direction = <<1, 2>>
    /\ state.x = pre.state.x
    /\ state.y = pre.state.y

\* The kinds of the two Moves and of the two Rotates.
MoveKinds == {"MoveForward", "MoveBackward"}
RotateKinds == {"RotateLeft", "RotateRight"}

\* The observed execute ended on a registered token that came right after a
\* top-level Move the sensors vetoed; before_last is the rover after that Move.
LastTokenFollowsVeto(before_last) ==
    /\ observed /\ call = "execute" /\ thrown = "none"
    /\ Len(args) >= 2
    /\ FirstUnregistered(args) = 0
    /\ operations[args[Len(args) - 1]].kind \in MoveKinds
    /\ before_last.state.stopped

\* C16: the dispatch loop of execute does not test the stopped flag between
\* tokens: right after a vetoed top-level Move, a Rotate bound to the next
\* token turns the rover, a Move bound to it queries its cell and moves if the
\* cell is safe, and a Compose bound to it runs none of its children.
C16_LoopIgnoresStoppedComposeDoesNot ==
    LET before_last == Rover_execute(PreRover, SubSeq(args, 1, Len(args) - 1))
        b == before_last.state
        last == operations[args[Len(args)]]
        cell == IF last.kind = "MoveForward"
                THEN <<b.x + b.direction[1], b.y + b.direction[2]>>
                ELSE <<b.x - b.direction[1], b.y - b.direction[2]>>
    IN  LastTokenFollowsVeto(before_last) =>
            /\ last.kind = "RotateRight" =>
                 /\ state = State(b.x, b.y, <<b.direction[2], -b.direction[1]>>, FALSE)
                 /\ Len(ran) = Len(before_last.ran) + 1
            /\ last.kind = "RotateLeft" =>
                 /\ state = State(b.x, b.y, <<-b.direction[2], b.direction[1]>>, FALSE)
                 /\ Len(ran) = Len(before_last.ran) + 1
            /\ last.kind \in MoveKinds =>
                 /\ Len(ran) = Len(before_last.ran) + 1
                 /\ ran[Len(ran)].kind = last.kind
                 /\ AllSafe(cell) => state = State(cell[1], cell[2], b.direction, FALSE)
                 /\ ~AllSafe(cell) => state = b
            /\ last.kind = "Compose" =>
                 /\ ran = before_last.ran
                 /\ queried = before_last.queried
                 /\ state = b

\* C16 witness: "fb": the forward move was vetoed and the backward move that
\* followed it moved the rover.
C16_Witness ==
    /\ observed
    /\ call = "execute"
    /\ thrown = "none"
    /\ args = <<"f", "b">>
    /\ ran[1].stopped
    /\ ~ran[2].stopped
    /\ <<state.x, state.y>> # <<pre.state.x, pre.state.y>>
    /\ ~state.stopped

\* C17: when execute returns normally, stopped is true exactly when the call
\* ended on an unregistered token or the last primitive operation run in the
\* call was a vetoed Move; it is false when no primitive ran and when an
\* earlier veto was followed by a rotation or a safe move.
C17_StoppedDescribesLastAction ==
    (observed /\ call = "execute" /\ thrown = "none") =>
        (state.stopped <=>
            \/ FirstUnregistered(args) # 0
            \/ /\ ran # <<>>
               /\ ran[Len(ran)].kind \in MoveKinds
               /\ ran[Len(ran)].stopped)

\* C17 witness: a Move of the call was vetoed, a rotation followed it, and the
\* call returned not stopped.
C17_Witness ==
    /\ observed
    /\ call = "execute"
    /\ thrown = "none"
    /\ MoveVetoed
    /\ ran[Len(ran)].kind \in RotateKinds
    /\ ~state.stopped

\* The name the documentation gives each canonical direction.
DirectionName == (NORTH :> "NORTH") @@ (EAST :> "EAST") @@ (SOUTH :> "SOUTH") @@ (WEST :> "WEST")

\* C15: rendering a rover writes "(x, y) DIRNAME" for the current position and
\* canonical direction, followed by " stopped" exactly when the current state
\* is stopped; when the direction is not canonical (the default state of a
\* rover that never landed included) it writes only "unknown".  (Of a
\* rendering that returned: the rover points to a State.)
C15_RenderingOfARover ==
    (observed /\ call = "insert" /\ thrown = "none") =>
        IF state.direction \in CanonicalDirections
        THEN LET position == "(" \o ToString(state.x) \o ", " \o ToString(state.y) \o ") "
                              \o DirectionName[state.direction]
             IN  /\ state.stopped => returned = position \o " stopped"
                 /\ ~state.stopped => returned = position
        ELSE returned = "unknown"

\* C15 witness: a stopped rover at a negative coordinate was rendered with
\* its position, its direction and the suffix.
C15_Witness ==
    /\ observed
    /\ call = "insert"
    /\ state = State(1, -1, WEST, TRUE)
    /\ returned = "(1, -1) WEST stopped"

\* The quarter turns of the compass, clockwise.
Clockwise == (NORTH :> EAST) @@ (EAST :> SOUTH) @@ (SOUTH :> WEST) @@ (WEST :> NORTH)

\* C18: if every land passes one of NORTH, EAST, SOUTH, WEST, the direction
\* of a landed rover is one of those four after any sequence of land and
\* execute calls; a RotateRight steps NORTH, EAST, SOUTH, WEST, NORTH and a
\* RotateLeft steps the reverse cycle.
C18_CanonicalDirectionsPreserved ==
    /\ landed => state.direction \in CanonicalDirections
    /\ (call = "execute" /\ thrown = "none" /\ args = <<"r">>) =>
           state.direction = Clockwise[pre.state.direction]
    /\ (call = "execute" /\ thrown = "none" /\ args = <<"l">>) =>
           Clockwise[state.direction] = pre.state.direction

\* C18 witness: a rover that moved away from where it landed was turned from
\* WEST to NORTH by a RotateRight.
C18_Witness ==
    /\ landed
    /\ call = "execute"
    /\ args = <<"r">>
    /\ pre.state.direction = WEST
    /\ state.direction = NORTH
    /\ <<state.x, state.y>> \notin LandCoordinates

\* C12: build() called on a builder yields a rover bound to everything the
\* program_command and add_sensor calls before it registered, whether the
\* calls were made on the builder itself or chained on the value a previous
\* call returned: the last operation registered for each token, and every
\* sensor in the order added.
C12_BuildDeliversAccumulated ==
    built_on = "builder" =>
        /\ operations = accumulated.builder_operations
        /\ sensors = accumulated.builder_sensors

\* C20: once a rover is built, no land, no execute (an unregistered token
\* included) and no later program_command or add_sensor on a builder changes
\* its operations or its sensors.
C20_BuiltConfigurationNeverChanges ==
    [][built_on # "none" => (operations' = operations /\ sensors' = sensors)]_vars

\* C20 witness: the rover executed an unregistered token that the builder it
\* came from has been bound to since.
C20_Witness ==
    /\ built_on = "builder"
    /\ call = "execute"
    /\ state.stopped
    /\ "r" \notin DOMAIN operations
    /\ "r" \in DOMAIN builder.builder_operations
    /\ Len(builder.builder_sensors) > Len(sensors)

\* C19: a State obtained through getState() keeps the x, y, direction and
\* stopped values it had when it was obtained, whatever land and execute
\* calls are made on the rover afterwards (the holder not writing to it).
C19_SnapshotsAreImmutable ==
    (snapshot.taken /\ ~snapshot.written) => snapshot.now = snapshot.obtained

====
